---- MODULE Spec2Model ----
(***************************************************************************)
(* Model of the game-data retrieval layer of mini-game-hub:                *)
(* GameDataManager (loadGames, getCachedData, setCachedData, clearCache,   *)
(* refreshData) and the Game entity constructor, over a model of           *)
(* localStorage, Date.now() and fetch().                                   *)
(*                                                                         *)
(* JavaScript values are tagged records.  Strings are sequences of         *)
(* one-character strings, so that parsing is computed on the characters.   *)
(* Numbers N(n) are held in tenths (N(45) is 4.5) because ratings have one *)
(* decimal; Date values are held in days since the epoch (Date(0) is 0).   *)
(* Date.now() and the stored timestamp are plain integers in milliseconds, *)
(* counted from the start of the session.                                  *)
(***************************************************************************)
EXTENDS Integers, Sequences, FiniteSets, TLC

VARIABLES
    games,        \* this.games
    isLoaded,     \* this.isLoaded
    lsData,       \* localStorage[this.cacheKey], NULL when the key is missing
    lsTs,         \* localStorage[this.cacheTimestampKey], NULL when missing
    storageMode,  \* how localStorage behaves: "ok", "quota", "disabled"
    now,          \* Date.now()
    pending,      \* the calls awaiting their fetch, oldest first
    lastOk,       \* the last loadGames() call that succeeded, if none followed
    lastWrite,    \* the setCachedData() the stored record comes from
    ev,           \* what the step just taken did, NULL when no call ran in it
    gameData,     \* the row handed to new Game(gameData)
    entry,        \* what new Game(gameData) gave: the Game, or the error thrown
    query,        \* the argument of searchGames(query), NULL when not called
    filters,      \* the argument of advancedSearch(filters)
    found,        \* what searchGames() and advancedSearch() returned
    called,       \* the call made on the manager and the memo before it
    returned,     \* what a sortGames() or getGameById() call returned
    timeoutId,    \* Debouncer: this.timeoutId
    timers,       \* the timers set with setTimeout that are still to fire
    invoked,      \* the calls of the debounced function since the burst began
    lastCall,     \* the last execute(value) call: its instant, its value and
                  \* the instant its burst began; NULL once cancelled
    inputValue,          \* SearchFilter: this.searchInput.value
    hasContent,          \* whether the clear button and 'has-content' show
    currentSearchQuery,  \* this.currentSearchQuery
    currentGenre,        \* this.currentGenre
    filterArgs,          \* the arguments of the last onFilterCallback call
    sinceClear,          \* the queries handed to onFilterCallback since
                         \* clearSearch() or resetFilters() ran with no input
                         \* event after it; NULL otherwise
    listView,     \* GameListView: isLoading, container, currentGames,
                  \* filteredGames, currentPage and the filter summary
    requests,     \* the loadAndRenderGames() and filterGames() calls awaiting
                  \* the data manager, oldest first
    calls,        \* how many such calls were made
    latest,       \* the last filterGames() call: its number, its filters and
                  \* how it ended
    obtained,     \* whether the last call that resumed got a non-empty list
    currentGame,          \* GameHub: this.currentGame
    currentGameInstance,  \* this.currentGameInstance
    instances,            \* the game instances created and not destroyed
    initTimers            \* the timers of initializeGame() still to fire

loaderVars == <<games, isLoaded, lsData, lsTs, storageMode, now, pending, lastOk,
                lastWrite, ev>>

gameVars == <<gameData, entry>>

searchVars == <<query, filters, found, called, returned>>

debounceVars == <<timeoutId, timers, invoked, lastCall>>

filterVars == <<inputValue, hasContent, currentSearchQuery, currentGenre,
                filterArgs, sinceClear>>

viewVars == <<listView, requests, calls, latest, obtained>>

hubVars == <<currentGame, currentGameInstance, instances, initTimers>>

\* the state of the page components
uiVars == <<filterVars, viewVars, hubVars>>

vars == <<loaderVars, gameVars, searchVars, debounceVars, uiVars>>

-----------------------------------------------------------------------------
(* Bounds of the model *)

\* number of calls that can await their fetch at the same time
MaxInFlight == 2
\* Date.now() takes the values 0, k * cacheTTL and k * cacheTTL + 1, k in 1..MaxDays
MaxDays == 1

-----------------------------------------------------------------------------
(* JavaScript values *)

UNDEF == [t |-> "undefined"]
NULL == [t |-> "null"]
NAN == [t |-> "NaN"]
INVALID_DATE == [t |-> "invalidDate"]
S(chars) == [t |-> "string", s |-> chars]
N(n) == [t |-> "number", n |-> n]
A(elems) == [t |-> "array", a |-> elems]
D(day) == [t |-> "date", day |-> day]
Obj(proto, fields) == [t |-> "object", proto |-> proto, f |-> fields]

\* ToBoolean
Truthy(v) ==
    CASE v.t \in {"undefined", "null", "NaN"} -> FALSE
      [] v.t = "string" -> Len(v.s) > 0
      [] v.t = "number" -> v.n # 0
      [] v.t = "bool" -> v.b
      [] OTHER -> TRUE

\* a || b
Or(a, b) == IF Truthy(a) THEN a ELSE b

IsArray(v) == v.t = "array"

Digits == <<"0", "1", "2", "3", "4", "5", "6", "7", "8", "9">>

IsDigit(c) == \E i \in 1..10 : Digits[i] = c

DigitVal(c) == (CHOOSE i \in 1..10 : Digits[i] = c) - 1

\* Number.prototype.toString() of a non-negative integer
RECURSIVE NumberToString(_)
NumberToString(n) ==
    IF n < 10 THEN <<Digits[n + 1]>>
    ELSE NumberToString(n \div 10) \o <<Digits[(n % 10) + 1]>>

\* the value of the longest prefix of decimal digits of chars, acc so far
RECURSIVE DigitPrefix(_, _)
DigitPrefix(chars, acc) ==
    IF Len(chars) = 0 \/ ~IsDigit(Head(chars)) THEN acc
    ELSE DigitPrefix(Tail(chars), 10 * acc + DigitVal(Head(chars)))

\* parseInt(string, 10) of a string without leading blanks or sign:
\* NaN when it does not start with a digit, else the digit prefix
ParseIntStr(chars) ==
    IF Len(chars) = 0 \/ ~IsDigit(Head(chars)) THEN NAN
    ELSE N(10 * DigitPrefix(chars, 0))

\* the characters after the digit prefix
RECURSIVE AfterDigits(_)
AfterDigits(chars) ==
    IF Len(chars) = 0 \/ ~IsDigit(Head(chars)) THEN chars
    ELSE AfterDigits(Tail(chars))

\* parseFloat of an unsigned decimal string, in tenths (one decimal kept)
ParseFloatUnsigned(chars) ==
    IF Len(chars) = 0 \/ ~IsDigit(Head(chars)) THEN NAN
    ELSE LET whole == DigitPrefix(chars, 0)
             rest == AfterDigits(chars)
             frac == IF Len(rest) >= 2 /\ rest[1] = "." /\ IsDigit(rest[2])
                     THEN DigitVal(rest[2]) ELSE 0
         IN  N(10 * whole + frac)

Negate(v) == IF v.t = "number" THEN N(0 - v.n) ELSE v

\* parseFloat(v): numbers are kept, strings are parsed, anything else is NaN
ParseFloat(v) ==
    CASE v.t = "number" -> v
      [] v.t = "string" ->
            IF Len(v.s) > 0 /\ Head(v.s) = "-"
            THEN Negate(ParseFloatUnsigned(Tail(v.s)))
            ELSE ParseFloatUnsigned(v.s)
      [] OTHER -> NAN

\* truncation of a number in tenths toward zero
Trunc(n) == IF n >= 0 THEN (n \div 10) * 10 ELSE 0 - (((0 - n) \div 10) * 10)

\* parseInt(v) of the constructor: the integer part of what parseFloat reads
ParseInt(v) ==
    LET x == ParseFloat(v)
    IN  IF x.t = "number" THEN N(Trunc(x.n)) ELSE NAN

-----------------------------------------------------------------------------
(* Dates.  Date.parse is modelled on the date strings of the catalogs used *)
(* here: the date-only form found in the data and the form toISOString()   *)
(* produces; every other string gives an Invalid Date.                     *)

Date20230515 == <<"2", "0", "2", "3", "-", "0", "5", "-", "1", "5">>

Date19690720 == <<"1", "9", "6", "9", "-", "0", "7", "-", "2", "0">>

IsoSuffix == <<"T", "0", "0", ":", "0", "0", ":", "0", "0", ".", "0", "0", "0", "Z">>

KnownDates ==
    { [raw |-> Date20230515, day |-> 19492],
      [raw |-> Date19690720, day |-> 0 - 165] }

\* new Date(string)
NewDate(v) ==
    IF v.t = "string"
         /\ \E k \in KnownDates : v.s = k.raw \/ v.s = k.raw \o IsoSuffix
    THEN D((CHOOSE k \in KnownDates : v.s = k.raw \/ v.s = k.raw \o IsoSuffix).day)
    ELSE INVALID_DATE

\* Date.prototype.toISOString()
ToISOString(d) == (CHOOSE k \in KnownDates : k.day = d.day).raw \o IsoSuffix

-----------------------------------------------------------------------------
(* JSON.  A JSON text is kept as the value it denotes; JsonValue computes  *)
(* what JSON.stringify keeps of a value: a Date becomes its ISO string, an *)
(* Invalid Date and NaN become null, an undefined array element becomes    *)
(* null, an undefined property is dropped (it reads back as undefined),    *)
(* and the prototype of an object is lost.                                 *)

RECURSIVE JsonValue(_)
JsonValue(v) ==
    CASE v.t = "date" -> S(ToISOString(v))
      [] v.t \in {"invalidDate", "NaN"} -> NULL
      [] v.t = "array" ->
            A([i \in DOMAIN v.a |->
                 IF v.a[i].t = "undefined" THEN NULL ELSE JsonValue(v.a[i])])
      [] v.t = "object" ->
            Obj("Object", [k \in DOMAIN v.f |-> JsonValue(v.f[k])])
      [] OTHER -> v

\* JSON.stringify(v): a non-empty string holding the JSON text of v
JsonStringify(v) == [t |-> "string", json |-> JsonValue(v)]

\* the strings localStorage can hold here: JSON texts and plain characters
IsJsonText(str) == "json" \in DOMAIN str

IsEmptyString(str) == ~IsJsonText(str) /\ Len(str.s) = 0

\* !x for a value read from localStorage (null or a string)
Missing(x) == x.t = "null" \/ IsEmptyString(x)

\* whether JSON.parse(str) throws: plain characters are JSON only when they
\* are a number
JsonParseThrows(str) ==
    ~IsJsonText(str)
      /\ (Len(str.s) = 0 \/ \E i \in 1..Len(str.s) : ~IsDigit(str.s[i]))

\* JSON.parse(str) when it does not throw
JsonParse(str) == IF IsJsonText(str) THEN str.json ELSE N(10 * DigitPrefix(str.s, 0))

-----------------------------------------------------------------------------
(* The Game entity *)

Placeholder ==
    <<"i", "m", "a", "g", "e", "s", "/", "p", "l", "a", "c", "e", "h", "o",
      "l", "d", "e", "r", ".", "j", "p", "g">>

FieldNames ==
    {"id", "title", "description", "fullDescription", "genre", "rating",
     "reviewCount", "thumbnail", "screenshots", "systemRequirements",
     "officialWebsite", "downloadLinks", "releaseDate", "developer", "tags"}

\* data.<name>: undefined when the row does not have the property
Get(data, name) ==
    IF data.t = "object" /\ name \in DOMAIN data.f THEN data.f[name] ELSE UNDEF

\* the check at the head of the constructor looking at id alone
GameThrowsIdOnly(data) == ~Truthy(Get(data, "id"))

\* the check at the head of the constructor
GameThrows(data) == ~Truthy(Get(data, "id")) \/ ~Truthy(Get(data, "title"))

ReleaseDateOf(data) ==
    IF Truthy(Get(data, "releaseDate")) THEN NewDate(Get(data, "releaseDate"))
    ELSE NULL

\* new Game(data) when the constructor does not throw
NewGame(data) ==
    Obj("Game",
        [id |-> Get(data, "id"),
         title |-> Get(data, "title"),
         description |-> Or(Get(data, "description"), S(<<>>)),
         fullDescription |->
             Or(Or(Get(data, "fullDescription"), Get(data, "description")), S(<<>>)),
         genre |-> IF IsArray(Get(data, "genre")) THEN Get(data, "genre") ELSE A(<<>>),
         rating |-> Or(ParseFloat(Get(data, "rating")), N(0)),
         reviewCount |-> Or(ParseInt(Get(data, "reviewCount")), N(0)),
         thumbnail |-> Or(Get(data, "thumbnail"), S(Placeholder)),
         screenshots |->
             IF IsArray(Get(data, "screenshots")) THEN Get(data, "screenshots")
             ELSE A(<<>>),
         systemRequirements |->
             Or(Get(data, "systemRequirements"), Obj("Object", <<>>)),
         officialWebsite |-> Or(Get(data, "officialWebsite"), S(<<>>)),
         downloadLinks |->
             IF IsArray(Get(data, "downloadLinks")) THEN Get(data, "downloadLinks")
             ELSE A(<<>>),
         releaseDate |-> ReleaseDateOf(data),
         developer |-> Or(Get(data, "developer"), S(<<>>)),
         tags |-> IF IsArray(Get(data, "tags")) THEN Get(data, "tags") ELSE A(<<>>)])

\* whether an accessor of Game (getGenreString, getFormattedRating, ...) can
\* be called on v
HasAccessors(v) == v.t = "object" /\ v.proto = "Game"

\* data.games.map(gameData => new Game(gameData))
MapThrows(rows) == \E i \in DOMAIN rows : GameThrows(rows[i])

MapNewGame(rows) == A([i \in DOMAIN rows |-> NewGame(rows[i])])

-----------------------------------------------------------------------------
(* The Cache Store: localStorage under the two keys of the manager.        *)
(* st is [data, ts]: the strings under cacheKey and cacheTimestampKey.     *)
(* mode says how localStorage behaves during the call: "ok"; "quota"       *)
(* (setItem throws QuotaExceededError, reads and removals work);           *)
(* "disabled" (every access throws).                                       *)

cacheTTL == 24 * 60 * 60 * 1000

StorageModes == {"ok", "quota", "disabled"}

\* which setItem of setCachedData throws: 0 none, 1 the payload's, 2 the
\* timestamp's
WriteFailures(mode) ==
    CASE mode = "ok" -> {0}
      [] mode = "quota" -> {1, 2}
      [] OTHER -> {1}

\* clearCache() that removes nothing
ClearCacheKeeps(st, mode) == st

\* clearCache(): both removeItem calls inside try/catch
ClearCache(st, mode) ==
    IF mode = "disabled" THEN st ELSE [data |-> NULL, ts |-> NULL]

\* the number of milliseconds a number value holds
Millis(v) == v.n \div 10

\* Expired with the comparison made inclusive: a record aged exactly cacheTTL
\* counts as stale
ExpiredAtBoundary(timestamp, t) ==
    timestamp.t = "number" /\ t - Millis(timestamp) >= cacheTTL

\* now - timestamp > this.cacheTTL, false when timestamp is NaN
Expired(timestamp, t) ==
    timestamp.t = "number" /\ t - Millis(timestamp) > cacheTTL

\* the try block of getCachedData(): [threw, value, st]
GetCachedDataTry(st, mode, t) ==
    IF mode = "disabled" THEN [threw |-> TRUE, value |-> NULL, st |-> st]
    ELSE IF Missing(st.data) \/ Missing(st.ts)
    THEN [threw |-> FALSE, value |-> NULL, st |-> st]
    ELSE IF Expired(ParseIntStr(st.ts.s), t)
    THEN [threw |-> FALSE, value |-> NULL, st |-> ClearCache(st, mode)]
    ELSE IF JsonParseThrows(st.data)
    THEN [threw |-> TRUE, value |-> NULL, st |-> st]
    ELSE [threw |-> FALSE, value |-> JsonParse(st.data), st |-> st]

\* getCachedData() without its catch: what the try block throws reaches the
\* caller and nothing is cleared
GetCachedDataNoCatch(st, mode, t) == GetCachedDataTry(st, mode, t)

\* getCachedData(): the try block and its catch
GetCachedData(st, mode, t) ==
    LET r == GetCachedDataTry(st, mode, t)
    IN  IF r.threw
        THEN [threw |-> FALSE, value |-> NULL, st |-> ClearCache(r.st, mode)]
        ELSE r

\* the try block of setCachedData(data): [threw, st]; failAt is the setItem
\* that throws
SetCachedDataTry(st, data, t, failAt) ==
    IF failAt = 1 THEN [threw |-> TRUE, st |-> st]
    ELSE IF failAt = 2
    THEN [threw |-> TRUE, st |-> [st EXCEPT !.data = JsonStringify(data)]]
    ELSE [threw |-> FALSE,
          st |-> [data |-> JsonStringify(data), ts |-> S(NumberToString(t))]]

\* setCachedData(data) without its catch: a setItem that throws reaches
\* loadGames()
SetCachedDataNoCatch(st, data, t, failAt) == SetCachedDataTry(st, data, t, failAt)

\* setCachedData(data): the try block and its catch
SetCachedData(st, data, t, failAt) ==
    [SetCachedDataTry(st, data, t, failAt) EXCEPT !.threw = FALSE]

-----------------------------------------------------------------------------
(* The catalog data source: what fetch(this.dataUrl) can produce *)

RowA ==
    Obj("Object",
        [id |-> S(<<"a">>), title |-> S(<<"S", "p", "a", "c", "e">>),
         description |-> S(<<"r", "a", "i", "d">>),
         genre |-> A(<<S(<<"A", "c", "t">>)>>),
         rating |-> N(45), reviewCount |-> N(1000),
         releaseDate |-> S(Date20230515)])

RowB ==
    Obj("Object",
        [id |-> S(<<"b">>), title |-> S(<<"Q", "u", "e", "s", "t">>),
         genre |-> A(<<S(<<"P", "u", "z">>)>>),
         rating |-> S(<<"3">>)])

\* a row without title
RowBad == Obj("Object", [id |-> S(<<"c">>), rating |-> N(20)])

\* the row lists of the documents { games: [...] } the server can return
Catalogs == {<<>>, <<RowA, RowB>>, <<RowA, RowBad>>}

\* the catalogs whose rows all construct
ValidCatalogs == {rows \in Catalogs : ~MapThrows(rows)}

GamesDoc(rows) == Obj("Object", [games |-> A(rows)])

\* how one fetch ends: fetch() rejects; the response is not ok;
\* response.json() rejects; or a JSON document arrives
FetchOutcomes ==
    {[k |-> "networkError"], [k |-> "httpError"], [k |-> "badJson"]}
      \cup {[k |-> "doc", doc |-> d] :
              d \in {NULL, A(<<RowA>>), Obj("Object", [games |-> S(<<"x">>)])}
                      \cup {GamesDoc(rows) : rows \in Catalogs}}

\* !data || !Array.isArray(data.games)
InvalidFormat(data) == ~Truthy(data) \/ ~IsArray(Get(data, "games"))

\* whether the part of loadGames() after the fetch throws for this outcome
FetchFails(o) ==
    o.k # "doc" \/ InvalidFormat(o.doc) \/ MapThrows(Get(o.doc, "games").a)

-----------------------------------------------------------------------------
(* The session.  A page holds one GameDataManager; its callers (the list   *)
(* view, the search filter, getGameById, searchGames, getGenres, ...) call *)
(* loadGames() and refreshData() at any time, also while earlier calls are *)
(* awaiting their fetch.  Each element of pending is one call that issued  *)
(* its own fetch() and awaits it.                                          *)
(*                                                                         *)
(* lastOk, lastWrite and ev are history variables.  lastOk is the result   *)
(* and the number of fetches of the last loadGames() call of this manager  *)
(* that returned, kept until another call runs or time passes; lastWrite is *)
(* the payload and time of the last setCachedData() whose two setItem      *)
(* calls succeeded, kept while nothing else has written or cleared the     *)
(* store; ev describes the call step just taken.                           *)

Times == {0} \cup {k * cacheTTL + d : k \in 1..MaxDays, d \in {0, 1}}

Storage == [data |-> lsData, ts |-> lsTs]

\* what localStorage can hold when the page is opened: nothing, the record of
\* an earlier session, or strings written by something else
InitStorage ==
    LET none == JsonStringify(MapNewGame(<<>>))
        one == JsonStringify(MapNewGame(<<RowA>>))
        zero == S(NumberToString(0))
    IN  {[data |-> NULL, ts |-> NULL],
         [data |-> none, ts |-> zero],
         [data |-> one, ts |-> zero],
         [data |-> one, ts |-> NULL],
         [data |-> one, ts |-> S(<<>>)],
         [data |-> one, ts |-> S(<<"x">>)],
         [data |-> NULL, ts |-> zero],
         [data |-> S(<<>>), ts |-> zero],
         [data |-> S(<<"{">>), ts |-> zero],
         [data |-> S(<<"{">>), ts |-> NULL],
         [data |-> S(<<"{">>), ts |-> S(<<"x">>)],
         [data |-> JsonStringify(NULL), ts |-> zero]}

\* no Game is being constructed outside loadGames()
NoConstruction == gameData = NULL /\ entry = NULL

\* no search is made
NoSearch ==
    /\ query = NULL /\ filters = NULL /\ found = NULL
    /\ called = NULL /\ returned = NULL

\* no Debouncer is in use
NoDebouncer ==
    timeoutId = NULL /\ timers = {} /\ invoked = <<>> /\ lastCall = NULL

\* no SearchFilter is in use
NoSearchFilter ==
    /\ inputValue = NULL /\ hasContent = FALSE
    /\ currentSearchQuery = NULL /\ currentGenre = NULL
    /\ filterArgs = NULL /\ sinceClear = NULL

\* no GameListView is in use
NoListView ==
    /\ listView = NULL /\ requests = <<>> /\ calls = 0
    /\ latest = NULL /\ obtained = FALSE

\* no GameHub is in use
NoGameHub ==
    /\ currentGame = NULL /\ currentGameInstance = NULL
    /\ instances = <<>> /\ initTimers = <<>>

\* no page component is in use
UiIdle == NoSearchFilter /\ NoListView /\ NoGameHub

Init ==
    /\ NoConstruction /\ NoSearch /\ NoDebouncer /\ UiIdle
    /\ games = A(<<>>)
    /\ isLoaded = FALSE
    /\ storageMode \in StorageModes
    /\ \E st \in InitStorage :
          /\ storageMode = "disabled" => st.data = NULL /\ st.ts = NULL
          /\ lsData = st.data
          /\ lsTs = st.ts
    /\ now = 0
    /\ pending = <<>>
    /\ lastOk = NULL
    /\ lastWrite = NULL
    /\ ev = NULL

\* this.games.length > 0
NonEmpty(v) == v.t = "array" /\ Len(v.a) > 0

\* loadGames() with the cache read skipped: without a memo it always fetches
LoadSyncNetworkFirst(g, loaded, st, mode, t) ==
    IF loaded /\ NonEmpty(g)
    THEN [games |-> g, isLoaded |-> loaded, st |-> st, pc |-> "returned",
          path |-> "memo", result |-> g, fetches |-> 0, cached |-> NULL]
    ELSE [games |-> g, isLoaded |-> loaded, st |-> st, pc |-> "fetching",
          path |-> "network", result |-> NULL, fetches |-> 1,
          cached |-> GetCachedData(st, mode, t).value]

\* loadGames() from its first statement to its first await or return:
\* the memo check, the cache read, the start of the fetch
LoadSync(g, loaded, st, mode, t) ==
    IF loaded /\ NonEmpty(g)
    THEN [games |-> g, isLoaded |-> loaded, st |-> st, pc |-> "returned",
          path |-> "memo", result |-> g, fetches |-> 0, cached |-> NULL]
    ELSE LET r == GetCachedData(st, mode, t)
         IN  IF r.threw
             THEN [games |-> g, isLoaded |-> loaded, st |-> r.st, pc |-> "threw",
                   path |-> "cache", result |-> NULL, fetches |-> 0,
                   cached |-> NULL]
             ELSE IF Truthy(r.value)
             THEN [games |-> r.value, isLoaded |-> TRUE, st |-> r.st,
                   pc |-> "returned", path |-> "cache", result |-> r.value,
                   fetches |-> 0, cached |-> r.value]
             ELSE [games |-> g, isLoaded |-> loaded, st |-> r.st,
                   pc |-> "fetching", path |-> "network", result |-> NULL,
                   fetches |-> 1, cached |-> r.value]

Memo == [games |-> games, isLoaded |-> isLoaded]

\* the calls in flight once another call has run beside them
Overlapped(p) == [i \in DOMAIN p |-> [p[i] EXCEPT !.solo = FALSE, !.prev = NULL]]

\* a call of kind op runs its synchronous part s; cleared tells whether
\* clearCache() ran before it
Begin(op, s, cleared) ==
    LET solo == Len(pending) = 0
        prev == IF solo /\ op = "load" THEN lastOk ELSE NULL
        memoBefore == IF op = "refresh" THEN Memo ELSE NULL
        touched == cleared \/ s.st # Storage
    IN  /\ s.pc = "fetching" => Len(pending) < MaxInFlight
        /\ games' = s.games
        /\ isLoaded' = s.isLoaded
        /\ lsData' = s.st.data
        /\ lsTs' = s.st.ts
        /\ pending' =
              IF s.pc = "fetching"
              THEN Append(Overlapped(pending),
                          [op |-> op, ownFetch |-> s.fetches = 1, solo |-> solo,
                           prev |-> prev, memoBefore |-> memoBefore])
              ELSE Overlapped(pending)
        /\ lastOk' =
              IF s.pc = "fetching" THEN (IF solo /\ op = "load" THEN lastOk ELSE NULL)
              ELSE IF s.pc = "returned" /\ solo /\ op = "load"
              THEN [result |-> s.result, fetches |-> 0]
              ELSE NULL
        /\ lastWrite' = IF touched THEN NULL ELSE lastWrite
        /\ ev' = [kind |-> s.pc, op |-> op, path |-> s.path, result |-> s.result,
                  error |-> IF s.pc = "threw" THEN "GameDataError" ELSE "none",
                  fetches |-> s.fetches, solo |-> solo, prev |-> prev,
                  memoBefore |-> memoBefore,
                  read |-> IF s.path = "memo" THEN NULL
                           ELSE [data |-> IF cleared THEN ClearCache(Storage, storageMode).data
                                          ELSE lsData,
                                 ts |-> IF cleared THEN ClearCache(Storage, storageMode).ts
                                        ELSE lsTs,
                                 at |-> now, value |-> s.cached],
                  write |-> NULL, priorWrite |-> IF cleared THEN NULL ELSE lastWrite,
                  outcome |-> NULL, older |-> Len(pending)]
        /\ UNCHANGED <<storageMode, now>>

\* a caller calls loadGames()
LoadGames ==
    /\ Len(pending) <= MaxInFlight
    /\ Begin("load", LoadSync(games, isLoaded, Storage, storageMode, now), FALSE)
    /\ UNCHANGED <<gameVars, searchVars, debounceVars>>
    /\ UNCHANGED uiVars

\* a caller calls refreshData(): clearCache(), the memo reset, then loadGames()
RefreshData ==
    /\ Len(pending) <= MaxInFlight
    /\ Begin("refresh",
             LoadSync(A(<<>>), FALSE, ClearCache(Storage, storageMode),
                      storageMode, now),
             TRUE)
    /\ UNCHANGED <<gameVars, searchVars, debounceVars>>
    /\ UNCHANGED uiVars

Remove(p, i) == SubSeq(p, 1, i - 1) \o SubSeq(p, i + 1, Len(p))

\* the rest of loadGames() once the fetch of the call pending[i] has ended
\* with outcome o; on success failAt is the setItem of setCachedData() that
\* throws
AfterFetch(i, o, failAt) ==
    LET c == pending[i]
        base == [kind |-> "threw", op |-> c.op, path |-> "network", result |-> NULL,
                 error |-> "GameDataError", fetches |-> 1, solo |-> c.solo,
                 prev |-> c.prev, memoBefore |-> c.memoBefore, read |-> NULL,
                 write |-> NULL, priorWrite |-> lastWrite, outcome |-> o,
                 older |-> i - 1]
    IN  IF FetchFails(o)
        THEN /\ ev' = base
             /\ lastOk' = NULL
             /\ UNCHANGED <<games, isLoaded, lsData, lsTs, lastWrite>>
        ELSE LET built == MapNewGame(Get(o.doc, "games").a)
                 w == SetCachedData(Storage, built, now, failAt)
                 wr == [payload |-> built, at |-> now, failAt |-> failAt]
             IN  /\ games' = built
                 /\ lsData' = w.st.data
                 /\ lsTs' = w.st.ts
                 /\ isLoaded' = IF w.threw THEN isLoaded ELSE TRUE
                 /\ lastWrite' = IF failAt = 0 THEN wr
                                 ELSE IF failAt = 1 THEN lastWrite ELSE NULL
                 /\ lastOk' = IF ~w.threw /\ c.solo /\ c.op = "load"
                              THEN [result |-> built, fetches |-> 1] ELSE NULL
                 /\ ev' = [base EXCEPT !.kind = IF w.threw THEN "threw" ELSE "returned",
                                       !.result = IF w.threw THEN NULL ELSE built,
                                       !.error = IF w.threw THEN "GameDataError" ELSE "none",
                                       !.write = [at |-> now, failAt |-> failAt]]

\* the fetch of the call pending[i] settles and loadGames() runs to its end
FetchSettles(i) ==
    /\ i \in DOMAIN pending
    /\ \E o \in FetchOutcomes : \E failAt \in WriteFailures(storageMode) :
          AfterFetch(i, o, failAt)
    /\ pending' = Remove(pending, i)
    /\ UNCHANGED <<storageMode, now>>
    /\ UNCHANGED <<gameVars, searchVars, debounceVars>>
    /\ UNCHANGED uiVars

\* time passes
Tick ==
    /\ \E t \in Times : t > now /\ now' = t
    /\ ev' = NULL
    /\ lastOk' = NULL
    /\ UNCHANGED <<games, isLoaded, lsData, lsTs, storageMode, pending, lastWrite>>
    /\ UNCHANGED <<gameVars, searchVars, debounceVars>>
    /\ UNCHANGED uiVars

\* the page is loaded again: a new GameDataManager over the same
\* localStorage; the calls of the page before are gone with it
Reload ==
    /\ games' = A(<<>>)
    /\ isLoaded' = FALSE
    /\ pending' = <<>>
    /\ lastOk' = NULL
    /\ ev' = NULL
    /\ UNCHANGED <<lsData, lsTs, storageMode, now, lastWrite>>
    /\ UNCHANGED <<gameVars, searchVars, debounceVars>>
    /\ UNCHANGED uiVars

Next ==
    \/ LoadGames
    \/ RefreshData
    \/ \E i \in 1..MaxInFlight : FetchSettles(i)
    \/ Tick
    \/ Reload

Spec == Init /\ [][Next]_vars

-----------------------------------------------------------------------------
(* The Game constructor on its own: new Game(gameData) for rows whose     *)
(* fields are absent, well formed or of another type than expected.       *)

\* the loader is not in use
LoaderIdle ==
    /\ games = A(<<>>) /\ isLoaded = FALSE
    /\ lsData = NULL /\ lsTs = NULL /\ storageMode = "ok"
    /\ now = 0 /\ pending = <<>>
    /\ lastOk = NULL /\ lastWrite = NULL /\ ev = NULL

\* what a row can hold under each property the claims look at; UNDEF stands
\* for a row without the property
IdOptions == {UNDEF, NULL, S(<<>>), S(<<"a">>)}

TitleOptions == {UNDEF, NULL, S(<<>>), S(<<" ">>), S(<<"S", "p", "a", "c", "e">>)}

RatingOptions ==
    {UNDEF, NULL, N(45), N(50), N(75), N(0 - 10), S(<<"3">>),
     S(<<"4", ".", "5">>), S(<<"-", "2">>), S(<<"a", "b", "c">>), A(<<>>)}

ReviewCountOptions ==
    {UNDEF, N(1000), N(127), N(0 - 50), S(<<"1", "2">>), S(<<"x">>)}

GenreOptions == {UNDEF, S(<<"A", "c", "t">>), A(<<S(<<"A", "c", "t">>)>>)}

ReleaseDateOptions == {UNDEF, S(Date19690720), S(<<"x">>)}

\* the row with the properties of c that are not undefined
MakeRow(c) == Obj("Object", [k \in {k \in DOMAIN c : c[k] # UNDEF} |-> c[k]])

Rows ==
    {MakeRow([id |-> i, title |-> t, rating |-> r, reviewCount |-> n,
              genre |-> g, releaseDate |-> d]) :
        i \in IdOptions, t \in TitleOptions, r \in RatingOptions,
        n \in ReviewCountOptions, g \in GenreOptions, d \in ReleaseDateOptions}

\* the error the constructor throws
Thrown == [t |-> "threw", error |-> "Error"]

GameInit ==
    /\ LoaderIdle /\ NoSearch /\ NoDebouncer /\ UiIdle
    /\ gameData \in Rows
    /\ entry = NULL

\* new Game(gameData)
Construct ==
    /\ entry = NULL
    /\ entry' = IF GameThrows(gameData) THEN Thrown ELSE NewGame(gameData)
    /\ UNCHANGED <<gameData, loaderVars, searchVars, debounceVars>>
    /\ UNCHANGED uiVars

GameNext == Construct

GameSpec == GameInit /\ [][GameNext]_vars

-----------------------------------------------------------------------------
(* Strings: the String methods the search uses, on character sequences *)

Upper ==
    <<"A", "B", "C", "D", "E", "F", "G", "H", "I", "J", "K", "L", "M", "N",
      "O", "P", "Q", "R", "S", "T", "U", "V", "W", "X", "Y", "Z">>

Lower ==
    <<"a", "b", "c", "d", "e", "f", "g", "h", "i", "j", "k", "l", "m", "n",
      "o", "p", "q", "r", "s", "t", "u", "v", "w", "x", "y", "z">>

IsUpper(c) == \E i \in DOMAIN Upper : Upper[i] = c

LowerOf(c) ==
    IF IsUpper(c) THEN Lower[CHOOSE i \in DOMAIN Upper : Upper[i] = c] ELSE c

\* String.prototype.toLowerCase()
ToLowerCase(chars) == [i \in DOMAIN chars |-> LowerOf(chars[i])]

IsSpace(c) == c = " "

RECURSIVE TrimStart(_)
TrimStart(chars) ==
    IF Len(chars) > 0 /\ IsSpace(Head(chars)) THEN TrimStart(Tail(chars))
    ELSE chars

RECURSIVE TrimEnd(_)
TrimEnd(chars) ==
    IF Len(chars) > 0 /\ IsSpace(chars[Len(chars)])
    THEN TrimEnd(SubSeq(chars, 1, Len(chars) - 1))
    ELSE chars

\* String.prototype.trim()
Trim(chars) == TrimEnd(TrimStart(chars))

\* the characters before the first blank
RECURSIVE FirstWord(_)
FirstWord(chars) ==
    IF Len(chars) = 0 \/ IsSpace(Head(chars)) THEN <<>>
    ELSE <<Head(chars)>> \o FirstWord(Tail(chars))

\* split(/\s+/).filter(word => word.length > 0)
RECURSIVE Words(_)
Words(chars) ==
    LET rest == TrimStart(chars)
        word == FirstWord(rest)
    IN  IF Len(rest) = 0 THEN <<>>
        ELSE <<word>> \o Words(SubSeq(rest, Len(word) + 1, Len(rest)))

\* String.prototype.startsWith
StartsWith(text, part) ==
    Len(part) <= Len(text) /\ SubSeq(text, 1, Len(part)) = part

\* String.prototype.includes
Includes(text, part) ==
    \E i \in 0..(Len(text) - Len(part)) : SubSeq(text, i + 1, i + Len(part)) = part

\* the place of a character in the collation: blank first, then the letters
\* without regard to case
Rank(c) ==
    IF IsSpace(c) THEN 0
    ELSE IF \E i \in DOMAIN Lower : Lower[i] = LowerOf(c)
    THEN CHOOSE i \in DOMAIN Lower : Lower[i] = LowerOf(c)
    ELSE 27

\* the order of two sequences of numbers: -1, 0 or 1
RECURSIVE Lexicographic(_, _)
Lexicographic(x, y) ==
    IF Len(x) = 0 /\ Len(y) = 0 THEN 0
    ELSE IF Len(x) = 0 THEN 0 - 1
    ELSE IF Len(y) = 0 THEN 1
    ELSE IF Head(x) < Head(y) THEN 0 - 1
    ELSE IF Head(x) > Head(y) THEN 1
    ELSE Lexicographic(Tail(x), Tail(y))

\* String.prototype.localeCompare on blanks and letters: by letter without
\* regard to case, and for the same letters lower case before upper case
LocaleCompare(x, y) ==
    LET primary ==
            Lexicographic([i \in DOMAIN x |-> Rank(x[i])],
                          [i \in DOMAIN y |-> Rank(y[i])])
        byCase ==
            Lexicographic([i \in DOMAIN x |-> IF IsUpper(x[i]) THEN 1 ELSE 0],
                          [i \in DOMAIN y |-> IF IsUpper(y[i]) THEN 1 ELSE 0])
    IN  IF primary # 0 THEN primary ELSE byCase

-----------------------------------------------------------------------------
(* Search: searchGames, calculateSearchScore, advancedSearch, sortGames.  *)
(* Lists are sequences of Game values.                                     *)

RECURSIVE SeqSum(_)
SeqSum(nums) == IF Len(nums) = 0 THEN 0 ELSE Head(nums) + SeqSum(Tail(nums))

\* a count that finds no word
WordHitsNone(text, words) == 0

\* how many of the words text includes, a word counted as often as it occurs
WordHits(text, words) == Cardinality({i \in DOMAIN words : Includes(text, words[i])})

\* calculateSearchScore(game, searchTerm, searchWords)
CalculateSearchScore(game, searchTerm, searchWords) ==
    LET title == ToLowerCase(game.f.title.s)
        description == ToLowerCase(game.f.description.s)
        fullDescription == ToLowerCase(game.f.fullDescription.s)
        developer == ToLowerCase(game.f.developer.s)
        genres == [i \in DOMAIN game.f.genre.a |-> ToLowerCase(game.f.genre.a[i].s)]
        tags == [i \in DOMAIN game.f.tags.a |-> ToLowerCase(game.f.tags.a[i].s)]
        titleScore ==
            IF title = searchTerm THEN 100
            ELSE IF StartsWith(title, searchTerm) THEN 80
            ELSE IF Includes(title, searchTerm) THEN 60
            ELSE 0
        genreScore ==
            SeqSum([i \in DOMAIN genres |->
                      (IF genres[i] = searchTerm THEN 70
                       ELSE IF Includes(genres[i], searchTerm) THEN 50 ELSE 0)
                        + 30 * WordHits(genres[i], searchWords)])
        tagScore ==
            SeqSum([i \in DOMAIN tags |->
                      (IF tags[i] = searchTerm THEN 60
                       ELSE IF Includes(tags[i], searchTerm) THEN 40 ELSE 0)
                        + 25 * WordHits(tags[i], searchWords)])
    IN  titleScore + 40 * WordHits(title, searchWords)
          + genreScore + tagScore
          + (IF Includes(developer, searchTerm) THEN 35 ELSE 0)
          + 20 * WordHits(developer, searchWords)
          + (IF Includes(description, searchTerm) THEN 25 ELSE 0)
          + (IF Includes(fullDescription, searchTerm) THEN 20 ELSE 0)
          + 15 * WordHits(description, searchWords)
          + 10 * WordHits(fullDescription, searchWords)

\* a sort that puts item before the items of the same score
ScoreInsertBeforeTies(sorted, item) ==
    LET Higher(other) == other.score > item.score
        NotHigher(other) == other.score <= item.score
    IN  SelectSeq(sorted, Higher) \o <<item>> \o SelectSeq(sorted, NotHigher)

\* Array.prototype.sort((a, b) => b.score - a.score), which is stable: item
\* goes behind every item of the sorted list that is not to come after it
RECURSIVE ScoreInsert(_, _)
ScoreInsert(sorted, item) ==
    IF Len(sorted) = 0 THEN <<item>>
    ELSE IF item.score - Head(sorted).score <= 0
    THEN <<Head(sorted)>> \o ScoreInsert(Tail(sorted), item)
    ELSE <<item>> \o sorted

RECURSIVE ScoreSort(_)
ScoreSort(items) ==
    IF Len(items) = 0 THEN <<>>
    ELSE ScoreInsert(ScoreSort(SubSeq(items, 1, Len(items) - 1)), items[Len(items)])

\* !query || query.trim() === ''
BlankQuery(q) == ~Truthy(q) \/ Len(Trim(q.s)) = 0

\* searchGames(query) on the list loadGames() returned
SearchGames(list, q) ==
    IF BlankQuery(q) THEN list
    ELSE LET searchTerm == Trim(ToLowerCase(q.s))
             searchWords == Words(searchTerm)
             scored == [i \in DOMAIN list |->
                          [game |-> list[i],
                           score |-> CalculateSearchScore(list[i], searchTerm,
                                                          searchWords)]]
             Matches(item) == item.score > 0
             ranked == ScoreSort(SelectSeq(scored, Matches))
         IN  [i \in DOMAIN ranked |-> ranked[i].game]

SortByRating == S(<<"r", "a", "t", "i", "n", "g">>)

SortByTitle == S(<<"t", "i", "t", "l", "e">>)

SortByReleaseDate == S(<<"r", "e", "l", "e", "a", "s", "e", "D", "a", "t", "e">>)

SortByReviewCount == S(<<"r", "e", "v", "i", "e", "w", "C", "o", "u", "n", "t">>)

Asc == S(<<"a", "s", "c">>)

Desc == S(<<"d", "e", "s", "c">>)

All == S(<<"a", "l", "l">>)

\* the comparator of sortGames; the dates of the lists sorted here are valid
\* dates or null
Comparator(a, b, sortBy, order) ==
    LET comparison ==
            CASE sortBy = SortByRating -> a.f.rating.n - b.f.rating.n
              [] sortBy = SortByTitle -> LocaleCompare(a.f.title.s, b.f.title.s)
              [] sortBy = SortByReleaseDate ->
                    Or(a.f.releaseDate, D(0)).day - Or(b.f.releaseDate, D(0)).day
              [] sortBy = SortByReviewCount -> a.f.reviewCount.n - b.f.reviewCount.n
              [] OTHER -> 0
    IN  IF sortBy \notin {SortByRating, SortByTitle, SortByReleaseDate,
                          SortByReviewCount}
        THEN 0
        ELSE IF order = Asc THEN comparison ELSE 0 - comparison

\* the comparator with the order disregarded
ComparatorAscending(a, b, sortBy, order) == Comparator(a, b, sortBy, Asc)

\* the comparator sortGames() hands to Array.prototype.sort
Compare(a, b, sortBy, order) == Comparator(a, b, sortBy, order)

\* Array.prototype.sort with that comparator, which is stable
RECURSIVE SortInsert(_, _, _, _)
SortInsert(sorted, game, sortBy, order) ==
    IF Len(sorted) = 0 THEN <<game>>
    ELSE IF Compare(Head(sorted), game, sortBy, order) <= 0
    THEN <<Head(sorted)>> \o SortInsert(Tail(sorted), game, sortBy, order)
    ELSE <<game>> \o sorted

\* sortGames(games, sortBy, order)
RECURSIVE SortGames(_, _, _)
SortGames(list, sortBy, order) ==
    IF Len(list) = 0 THEN <<>>
    ELSE SortInsert(SortGames(SubSeq(list, 1, Len(list) - 1), sortBy, order),
                    list[Len(list)], sortBy, order)

\* a sort made in the array handed over
SortsArgument(list, sortBy, order) == SortGames(list, sortBy, order)

\* the array handed to sortGames() once it has returned: [...games] is what
\* is sorted, the argument is left as it was
SortGamesArgument(list, sortBy, order) == list

\* game.genre.some(g => g.toLowerCase() === filters.genre.toLowerCase())
HasGenre(game, genre) ==
    \E i \in DOMAIN game.f.genre.a :
        ToLowerCase(game.f.genre.a[i].s) = ToLowerCase(genre.s)

\* the genre filter left out
GenreFilterOff(list, f) == list

\* the genre filter of advancedSearch
GenreFilter(list, f) ==
    LET Keep(game) == HasGenre(game, Get(f, "genre"))
    IN  IF Truthy(Get(f, "genre")) /\ Get(f, "genre") # All
        THEN SelectSeq(list, Keep) ELSE list

\* the two rating filters of advancedSearch
RatingFilter(list, f) ==
    LET AtLeast(game) == game.f.rating.n >= Get(f, "minRating").n
        AtMost(game) == game.f.rating.n <= Get(f, "maxRating").n
        lower == IF Get(f, "minRating") # UNDEF THEN SelectSeq(list, AtLeast)
                 ELSE list
    IN  IF Get(f, "maxRating") # UNDEF THEN SelectSeq(lower, AtMost) ELSE lower

\* advancedSearch(filters) up to the sort: the list the sort is given
Filtered(list, f) ==
    LET searched == IF ~BlankQuery(Get(f, "query"))
                    THEN SearchGames(list, Get(f, "query")) ELSE list
    IN  RatingFilter(GenreFilter(searched, f), f)

\* advancedSearch(filters) on the list loadGames() returned
AdvancedSearch(list, f) ==
    IF Truthy(Get(f, "sortBy"))
    THEN SortGames(Filtered(list, f), Get(f, "sortBy"),
                   Or(Get(f, "sortOrder"), Desc))
    ELSE Filtered(list, f)

\* this.games once advancedSearch(f) has returned: the local games is the
\* memo itself until the text search or a filter() puts a new array in it
AdvancedSearchMemo(list, f) ==
    LET replaced == \/ ~BlankQuery(Get(f, "query"))
                    \/ (Truthy(Get(f, "genre")) /\ Get(f, "genre") # All)
                    \/ Get(f, "minRating") # UNDEF
                    \/ Get(f, "maxRating") # UNDEF
    IN  IF Truthy(Get(f, "sortBy")) /\ ~replaced
        THEN SortGamesArgument(list, Get(f, "sortBy"), Or(Get(f, "sortOrder"), Desc))
        ELSE list

\* getGameById(gameId) on the list loadGames() returned
GetGameById(list, gameId) ==
    LET Same(game) == game.f.id = gameId
        hits == SelectSeq(list, Same)
    IN  IF Len(hits) > 0 THEN hits[1] ELSE NULL

\* the rows of the catalogs searched
RowGo ==
    Obj("Object",
        [id |-> S(<<"a">>), title |-> S(<<"G", "o">>),
         description |-> S(<<"x">>), genre |-> A(<<S(<<"P", "u", "z">>)>>),
         rating |-> N(45), reviewCount |-> N(1000),
         releaseDate |-> S(Date20230515)])

RowKart ==
    Obj("Object",
        [id |-> S(<<"b">>), title |-> S(<<"G", "o", " ", "K", "a", "r", "t">>),
         genre |-> A(<<S(<<"G", "o">>)>>), tags |-> A(<<S(<<"g", "o">>)>>),
         developer |-> S(<<"G", "o", " ", "I", "n", "c">>),
         rating |-> S(<<"3">>), reviewCount |-> N(70)])

RowMaze ==
    Obj("Object",
        [id |-> S(<<"c">>), title |-> S(<<"M", "a", "z", "e">>),
         description |-> S(<<"r", "u", "n">>),
         fullDescription |-> S(<<"w", "e", " ", "g", "o">>),
         genre |-> A(<<S(<<"P", "u", "z">>)>>),
         rating |-> N(45), reviewCount |-> N(70),
         releaseDate |-> S(Date19690720)])

RowApple ==
    Obj("Object",
        [id |-> S(<<"d">>), title |-> S(<<"a", "p", "p", "l", "e">>),
         genre |-> A(<<S(<<"g", "O">>), S(<<"P", "u", "z">>)>>),
         rating |-> N(20), reviewCount |-> N(1000)])

SearchRows == {RowGo, RowKart, RowMaze, RowApple}

\* the longest catalog searched
MaxGames == 3

\* the catalogs: up to MaxGames different rows in any order
SearchCatalogs ==
    {rows \in UNION {[1..n -> SearchRows] : n \in 1..MaxGames} :
        \A i, j \in DOMAIN rows : i # j => rows[i] # rows[j]}

Queries ==
    {UNDEF, S(<<" ">>), S(<<"g", "o">>), S(<<" ", "G", "o", " ", "K", "a", "r", "t">>),
     S(<<"p", "u", "z">>), S(<<"z", "z">>)}

\* the queries of the filters objects
FilterQueries ==
    {UNDEF, S(<<"g", "o">>), S(<<" ", "G", "o", " ", "K", "a", "r", "t">>),
     S(<<"p", "u", "z">>)}

\* the filters objects handed to advancedSearch
FilterObjects ==
    {MakeRow([query |-> q, genre |-> g, minRating |-> lo, maxRating |-> hi,
              sortBy |-> by, sortOrder |-> ord]) :
        q \in FilterQueries, g \in {UNDEF, All, S(<<"g", "o">>)},
        lo \in {UNDEF, N(30), N(45)}, hi \in {UNDEF, N(30), N(45)},
        by \in {UNDEF, SortByRating, SortByTitle, SortByReleaseDate,
                SortByReviewCount},
        ord \in {UNDEF, Asc, Desc}}

\* the catalog is loaded and nothing was searched yet
SearchInit ==
    /\ NoConstruction /\ NoSearch /\ NoDebouncer /\ UiIdle
    /\ \E rows \in SearchCatalogs : games = MapNewGame(rows)
    /\ isLoaded = TRUE
    /\ lsData = NULL /\ lsTs = NULL /\ storageMode = "ok"
    /\ now = 0 /\ pending = <<>>
    /\ lastOk = NULL /\ lastWrite = NULL /\ ev = NULL

\* what await this.loadGames() gives the search: the memo
Loaded == LoadSync(games, isLoaded, Storage, storageMode, now)

\* the variables of the loader other than the memo's list
loaderRest == <<isLoaded, lsData, lsTs, storageMode, now, pending, lastOk,
                lastWrite, ev>>

\* the ids asked of getGameById
IdQueries == {S(<<"a">>), S(<<"b">>), S(<<"c">>), S(<<"d">>), S(<<"z">>)}

\* a caller calls searchGames(q); one call is followed per behaviour
CallSearchGames ==
    /\ found = NULL /\ called = NULL
    /\ Loaded.pc = "returned"
    /\ \E q \in Queries :
          /\ query' = q
          /\ found' = A(SearchGames(Loaded.result.a, q))
    /\ filters' = NULL
    /\ called' = [op |-> "searchGames", memo |-> Memo]
    /\ UNCHANGED returned
    /\ UNCHANGED <<loaderVars, gameVars, debounceVars>>
    /\ UNCHANGED uiVars

\* a caller calls advancedSearch(f)
CallAdvancedSearch ==
    /\ found = NULL /\ called = NULL
    /\ Loaded.pc = "returned"
    /\ \E f \in FilterObjects :
          /\ filters' = f
          /\ query' = IF BlankQuery(Get(f, "query")) THEN NULL ELSE Get(f, "query")
          /\ found' = A(AdvancedSearch(Loaded.result.a, f))
          /\ games' = A(AdvancedSearchMemo(Loaded.result.a, f))
    /\ called' = [op |-> "advancedSearch", memo |-> Memo]
    /\ UNCHANGED returned
    /\ UNCHANGED <<loaderRest, gameVars, debounceVars>>
    /\ UNCHANGED uiVars

\* a caller calls sortGames(games, sortBy, order) with the list loadGames()
\* returned, which is the memo
CallSortGames ==
    /\ found = NULL /\ called = NULL
    /\ Loaded.pc = "returned"
    /\ \E sortBy \in {SortByRating, SortByTitle, SortByReleaseDate,
                      SortByReviewCount} :
       \E order \in {UNDEF, Asc, Desc} :
          LET ord == IF order = UNDEF THEN Desc ELSE order
          IN  /\ called' = [op |-> "sortGames", memo |-> Memo, sortBy |-> sortBy,
                            order |-> order]
              /\ returned' = A(SortGames(Loaded.result.a, sortBy, ord))
              /\ games' = A(SortGamesArgument(Loaded.result.a, sortBy, ord))
    /\ UNCHANGED <<query, filters, found>>
    /\ UNCHANGED <<loaderRest, gameVars, debounceVars>>
    /\ UNCHANGED uiVars

\* a caller calls getGameById(gameId)
CallGetGameById ==
    /\ found = NULL /\ called = NULL
    /\ Loaded.pc = "returned"
    /\ \E gameId \in IdQueries :
          /\ called' = [op |-> "getGameById", memo |-> Memo, gameId |-> gameId]
          /\ returned' = GetGameById(Loaded.result.a, gameId)
    /\ UNCHANGED <<query, filters, found>>
    /\ UNCHANGED <<loaderVars, gameVars, debounceVars>>
    /\ UNCHANGED uiVars

SearchNext ==
    \/ CallSearchGames
    \/ CallAdvancedSearch
    \/ CallSortGames
    \/ CallGetGameById

SearchSpec == SearchInit /\ [][SearchNext]_vars

\* the catalog is loaded with its entries in the order of their ids
SortedInit ==
    /\ SearchInit
    /\ \A i, j \in DOMAIN games.a :
          i < j => LocaleCompare(games.a[i].f.id.s, games.a[j].f.id.s) < 0

\* the same calls on the catalogs that are in the order of their ids
SortedSpec == SortedInit /\ [][SearchNext]_vars

-----------------------------------------------------------------------------
(* The Debouncer of the search input.  setTimeout and clearTimeout work on *)
(* timers, the set of timers still to fire, each [id, due, args]; a timer  *)
(* fires at the instant it is due, and time does not pass it.  now is the  *)
(* clock in milliseconds.  invoked and lastCall are history variables.     *)

\* this.debounceDelay of SearchFilter, the delay its Debouncer is made with
debounceDelay == 300

\* the longest step of the clock, in milliseconds
TickMs == 100

\* execute() and cancel() are called up to this instant
Horizon == 700

\* the values handed to execute()
Values == {S(<<"g">>), S(<<"g", "o">>)}

\* clearTimeout(id) that clears nothing
ClearTimeoutNothing(set, id) == set

\* clearTimeout(id): no timer of that id is left; an id that is null or of a
\* timer that has fired clears nothing
ClearTimeout(set, id) == {t \in set : t.id # id}

\* the id setTimeout returns, a number: one no timer has and this.timeoutId
\* does not hold
NewTimerId ==
    LET Free(i) == N(i) # timeoutId /\ \A t \in timers : t.id # N(i)
    IN  N(CHOOSE i \in 1..(Cardinality(timers) + 2) :
              Free(i) /\ \A j \in 1..(i - 1) : ~Free(j))

\* a new Debouncer(func, debounceDelay), nothing else in use
DebounceInit ==
    /\ LoaderIdle /\ NoConstruction /\ NoSearch /\ UiIdle
    /\ timeoutId = NULL
    /\ timers = {}
    /\ invoked = <<>>
    /\ lastCall = NULL

\* Debouncer.execute(value): clearTimeout(this.timeoutId), then setTimeout
DebouncerExecute(value) ==
    /\ timers' = ClearTimeout(timers, timeoutId)
                   \cup {[id |-> NewTimerId, due |-> now + debounceDelay,
                          args |-> value]}
    /\ timeoutId' = NewTimerId
    /\ invoked' = IF timers = {} THEN <<>> ELSE invoked
    /\ lastCall' = [at |-> now, value |-> value,
                    since |-> IF timers = {} \/ lastCall = NULL THEN now
                              ELSE lastCall.since]

\* Debouncer.cancel(): clearTimeout(this.timeoutId)
DebouncerCancel ==
    /\ timers' = ClearTimeout(timers, timeoutId)
    /\ lastCall' = NULL
    /\ UNCHANGED <<timeoutId, invoked>>

\* the timer t is due: its callback runs this.func.apply(this, args)
Fires(t) ==
    /\ t \in timers
    /\ t.due <= now
    /\ timers' = timers \ {t}
    /\ invoked' = Append(invoked, [at |-> now, value |-> t.args])
    /\ UNCHANGED <<timeoutId, lastCall>>

\* a caller calls execute(value)
Execute(value) ==
    /\ now <= Horizon
    /\ DebouncerExecute(value)
    /\ UNCHANGED <<loaderVars, gameVars, searchVars>>
    /\ UNCHANGED uiVars

\* a caller calls cancel()
Cancel ==
    /\ now <= Horizon
    /\ DebouncerCancel
    /\ UNCHANGED <<loaderVars, gameVars, searchVars>>
    /\ UNCHANGED uiVars

\* a timer fires; func only counts its calls
TimerFires ==
    /\ \E t \in timers : Fires(t)
    /\ UNCHANGED <<loaderVars, gameVars, searchVars>>
    /\ UNCHANGED uiVars

\* the smallest of a non-empty set of numbers
Least(set) == CHOOSE x \in set : \A y \in set : x <= y

\* time passes, up to the next instant a timer is due
TimePasses ==
    /\ \A t \in timers : t.due > now
    /\ timers = {} => now < Horizon
    /\ now' = Least({now + TickMs} \cup {t.due : t \in timers})
    /\ UNCHANGED <<games, isLoaded, lsData, lsTs, storageMode, pending, lastOk,
                   lastWrite, ev>>
    /\ UNCHANGED <<gameVars, searchVars, debounceVars>>
    /\ UNCHANGED uiVars

DebounceNext ==
    \/ \E value \in Values : Execute(value)
    \/ Cancel
    \/ TimerFires
    \/ TimePasses

DebounceSpec == DebounceInit /\ [][DebounceNext]_vars

-----------------------------------------------------------------------------
(* SearchFilter: the search input, its Debouncer and the genre select.    *)
(* onFilterCallback is registered; the timers are those of the Debouncer  *)
(* above.  The analytics branch of performSearch() and handleGenreChange() *)
(* only reads the data manager and is left out.                            *)

\* the values of the search input at an input event
FilterInputs == {S(<<>>), S(<<"g">>), S(<<"g", "o", " ">>)}

\* the options of the genre select
GenreChoices == {All, S(<<"p", "u", "z">>)}

\* new SearchFilter(...), onFilter(callback) called, nothing typed
FilterInit ==
    /\ LoaderIdle /\ NoConstruction /\ NoSearch /\ NoDebouncer
    /\ NoListView /\ NoGameHub
    /\ inputValue = S(<<>>)
    /\ hasContent = FALSE
    /\ currentSearchQuery = S(<<>>)
    /\ currentGenre = All
    /\ filterArgs = NULL
    /\ sinceClear = NULL

\* updateSearchUI(query): query && query.trim().length > 0
HasQuery(q) == Truthy(q) /\ Len(Trim(q.s)) > 0

\* triggerFilter() once currentSearchQuery is q and currentGenre is g
TriggerFilter(q, g) ==
    /\ filterArgs' = [query |-> q, genre |-> g]
    /\ sinceClear' = IF sinceClear = NULL THEN NULL
                     ELSE [t |-> "queries", of |-> sinceClear.of \cup {q}]

\* an input event: handleSearchInput(value)
HandleSearchInput(value) ==
    /\ now <= Horizon
    /\ inputValue' = value
    /\ hasContent' = HasQuery(value)
    /\ DebouncerExecute(value)
    /\ sinceClear' = NULL
    /\ UNCHANGED <<currentSearchQuery, currentGenre, filterArgs>>
    /\ UNCHANGED <<loaderVars, gameVars, searchVars>>
    /\ UNCHANGED <<viewVars, hubVars>>

\* the timer of the Debouncer fires: performSearch(query)
PerformSearch ==
    /\ \E t \in timers :
          /\ Fires(t)
          /\ currentSearchQuery' = S(Trim(t.args.s))
          /\ TriggerFilter(S(Trim(t.args.s)), currentGenre)
    /\ UNCHANGED <<inputValue, hasContent, currentGenre>>
    /\ UNCHANGED <<loaderVars, gameVars, searchVars>>
    /\ UNCHANGED <<viewVars, hubVars>>

\* a change event of the genre select: handleGenreChange(genre)
HandleGenreChange(genre) ==
    /\ genre # currentGenre
    /\ currentGenre' = genre
    /\ TriggerFilter(currentSearchQuery, genre)
    /\ UNCHANGED <<inputValue, hasContent, currentSearchQuery>>
    /\ UNCHANGED <<loaderVars, gameVars, searchVars, debounceVars>>
    /\ UNCHANGED <<viewVars, hubVars>>

\* the clear button or the Escape key: clearSearch()
ClearSearch ==
    /\ inputValue' = S(<<>>)
    /\ currentSearchQuery' = S(<<>>)
    /\ hasContent' = HasQuery(S(<<>>))
    /\ filterArgs' = [query |-> S(<<>>), genre |-> currentGenre]
    /\ sinceClear' = [t |-> "queries", of |-> {S(<<>>)}]
    /\ UNCHANGED currentGenre
    /\ UNCHANGED <<loaderVars, gameVars, searchVars, debounceVars>>
    /\ UNCHANGED <<viewVars, hubVars>>

\* resetFilters()
ResetFilters ==
    /\ inputValue' = S(<<>>)
    /\ currentSearchQuery' = S(<<>>)
    /\ currentGenre' = All
    /\ hasContent' = HasQuery(S(<<>>))
    /\ filterArgs' = [query |-> S(<<>>), genre |-> All]
    /\ sinceClear' = [t |-> "queries", of |-> {S(<<>>)}]
    /\ UNCHANGED <<loaderVars, gameVars, searchVars, debounceVars>>
    /\ UNCHANGED <<viewVars, hubVars>>

\* destroy(): this.debouncedSearch.cancel()
Destroy ==
    /\ timers # {}
    /\ DebouncerCancel
    /\ UNCHANGED filterVars
    /\ UNCHANGED <<loaderVars, gameVars, searchVars>>
    /\ UNCHANGED <<viewVars, hubVars>>

FilterNext ==
    \/ \E value \in FilterInputs : HandleSearchInput(value)
    \/ PerformSearch
    \/ \E genre \in GenreChoices : HandleGenreChange(genre)
    \/ ClearSearch
    \/ ResetFilters
    \/ Destroy
    \/ TimePasses

FilterSpec == FilterInit /\ [][FilterNext]_vars

-----------------------------------------------------------------------------
(* GameListView over the data manager.  listView holds the fields of the  *)
(* view; container is what this.container.innerHTML shows.  A call whose   *)
(* loadGames() finds the memo resumes in microtasks, before any other      *)
(* event is handled, and is one step; a call whose loadGames() fetches     *)
(* waits in requests until its fetch has answered.  The catalogs are       *)
(* shorter than a page, so no pagination button is there to click.         *)

\* this.gamesPerPage
gamesPerPage == 20

\* the loadAndRenderGames() and filterGames() calls made at most
MaxCalls == 3

\* the rows every fetch answers with
ViewRows == <<RowGo, RowKart, RowMaze>>

\* how a fetch of the page ends
ViewOutcomes == {[k |-> "networkError"], [k |-> "doc", doc |-> GamesDoc(ViewRows)]}

\* the arguments the filter callback hands to filterGames()
ViewQueries == {S(<<>>), S(<<"g", "o">>), S(<<"z", "z">>)}

\* what the container shows
LoadingState == [shows |-> "loading"]
ErrorState == [shows |-> "error"]
EmptyState == [shows |-> "empty"]
GameGrid(cards) == [shows |-> "grid", cards |-> cards]

\* showLoading(): innerHTML is replaced, the filter summary inside it goes
ShowLoading(v) ==
    [v EXCEPT !.isLoading = TRUE, !.container = LoadingState, !.summary = "none"]

\* showError(message)
ShowError(v) ==
    [v EXCEPT !.isLoading = FALSE, !.container = ErrorState, !.summary = "none"]

\* showEmptyState()
ShowEmptyState(v) ==
    [v EXCEPT !.isLoading = FALSE, !.container = EmptyState, !.summary = "none"]

\* this.filteredGames.slice(startIndex, endIndex)
PageOf(list, page) ==
    LET startIndex == (page - 1) * gamesPerPage
        endIndex == startIndex + gamesPerPage
        last == IF endIndex < Len(list) THEN endIndex ELSE Len(list)
    IN  SubSeq(list, startIndex + 1, last)

\* renderGameGrid()
RenderGameGrid(v) ==
    IF v.isLoading THEN v
    ELSE LET gamesToShow == PageOf(v.filteredGames.a, v.currentPage)
         IN  IF Len(gamesToShow) = 0 THEN ShowEmptyState(v)
             ELSE [v EXCEPT !.container = GameGrid(gamesToShow), !.summary = "none"]

\* hideFilterSummary()
HideFilterSummary(v) ==
    IF v.summary = "none" THEN v ELSE [v EXCEPT !.summary = "hidden"]

\* updateFilterSummary(searchQuery, genre, resultCount)
UpdateFilterSummary(v, searchQuery, genre) ==
    LET hasFilters == \/ (Truthy(searchQuery) /\ Len(Trim(searchQuery.s)) # 0)
                      \/ (Truthy(genre) /\ genre # All)
    IN  IF hasFilters THEN [v EXCEPT !.summary = "shown"]
        ELSE HideFilterSummary(v)

\* the filters object filterGames(searchQuery, genre) builds
FiltersOf(searchQuery, genre) == MakeRow([query |-> searchQuery, genre |-> genre])

\* loadAndRenderGames() from the answer of loadGames() on
LoadResumes(v, list) ==
    RenderGameGrid([v EXCEPT !.currentGames = A(list), !.filteredGames = A(list),
                             !.currentPage = 1])

\* filterGames() from the answer of advancedSearch() on; list is what
\* loadGames() gave advancedSearch()
FilterResumes(v, f, list) ==
    UpdateFilterSummary(
        RenderGameGrid([v EXCEPT !.filteredGames = A(AdvancedSearch(list, f)),
                                 !.currentPage = 1]),
        Get(f, "query"), Get(f, "genre"))

\* new GameDataManager(), then new GameListView(): init() has called
\* loadAndRenderGames(), whose loadGames() has started the first fetch
ViewInit ==
    /\ LoaderIdle /\ NoConstruction /\ NoSearch /\ NoDebouncer
    /\ NoSearchFilter /\ NoGameHub
    /\ listView = [isLoading |-> TRUE, container |-> LoadingState,
                   currentGames |-> A(<<>>), filteredGames |-> A(<<>>),
                   currentPage |-> 1, summary |-> "none"]
    /\ requests = <<[op |-> "load", f |-> NULL, id |-> 1]>>
    /\ calls = 1
    /\ latest = NULL
    /\ obtained = FALSE

\* filterGames(searchQuery, genre) on the view v, called by the filter
\* callback
FilterGamesOn(v, searchQuery, genre) ==
    LET f == FiltersOf(searchQuery, genre)
        s == LoadSync(games, isLoaded, Storage, storageMode, now)
        id == calls + 1
    IN  /\ calls < MaxCalls
        /\ calls' = id
        /\ games' = s.games
        /\ isLoaded' = s.isLoaded
        /\ lsData' = s.st.data
        /\ lsTs' = s.st.ts
        /\ IF s.pc = "returned"
           THEN /\ listView' = FilterResumes(ShowLoading(v), f, s.result.a)
                /\ requests' = requests
                /\ latest' = [id |-> id, f |-> f, ended |-> "returned"]
                /\ obtained' = (Len(AdvancedSearch(s.result.a, f)) > 0)
           ELSE IF s.pc = "fetching"
           THEN /\ listView' = ShowLoading(v)
                /\ requests' = Append(requests, [op |-> "filter", f |-> f, id |-> id])
                /\ latest' = [id |-> id, f |-> f, ended |-> "pending"]
                /\ obtained' = FALSE
           ELSE /\ listView' = ShowError(ShowLoading(v))
                /\ requests' = requests
                /\ latest' = [id |-> id, f |-> f, ended |-> "threw"]
                /\ obtained' = FALSE
        /\ UNCHANGED <<storageMode, now, pending, lastOk, lastWrite, ev>>
        /\ UNCHANGED <<gameVars, searchVars, debounceVars, filterVars, hubVars>>

\* the filter callback of setupSearchFilter(): gameListView.filterGames()
FilterGames(searchQuery, genre) == FilterGamesOn(listView, searchQuery, genre)

\* the Clear Filters button of the summary: clearAllFilters(), whose
\* window.searchFilter.resetFilters() calls the filter callback
ClearAllFilters ==
    /\ listView.summary = "shown"
    /\ FilterGamesOn(
          HideFilterSummary(
              RenderGameGrid([listView EXCEPT !.filteredGames = listView.currentGames,
                                              !.currentPage = 1])),
          S(<<>>), All)

\* the fetch of the call requests[i] answers and the call runs to its end
Resumes(i) ==
    /\ i \in DOMAIN requests
    /\ \E o \in ViewOutcomes :
          LET c == requests[i]
              ended == IF FetchFails(o) THEN "threw" ELSE "returned"
          IN  /\ latest' = IF latest # NULL /\ latest.id = c.id
                           THEN [latest EXCEPT !.ended = ended] ELSE latest
              /\ IF FetchFails(o)
                 THEN /\ listView' = ShowError(listView)
                      /\ obtained' = FALSE
                      /\ UNCHANGED <<games, isLoaded, lsData, lsTs>>
                 ELSE LET built == MapNewGame(Get(o.doc, "games").a)
                          w == SetCachedData(Storage, built, now, 0)
                      IN  /\ games' = built
                          /\ isLoaded' = TRUE
                          /\ lsData' = w.st.data
                          /\ lsTs' = w.st.ts
                          /\ listView' = IF c.op = "load"
                                         THEN LoadResumes(listView, built.a)
                                         ELSE FilterResumes(listView, c.f, built.a)
                          /\ obtained' = IF c.op = "load" THEN Len(built.a) > 0
                                         ELSE Len(AdvancedSearch(built.a, c.f)) > 0
    /\ requests' = Remove(requests, i)
    /\ UNCHANGED <<calls, storageMode, now, pending, lastOk, lastWrite, ev>>
    /\ UNCHANGED <<gameVars, searchVars, debounceVars, filterVars, hubVars>>

ViewNext ==
    \/ \E searchQuery \in ViewQueries : \E genre \in GenreChoices :
          FilterGames(searchQuery, genre)
    \/ ClearAllFilters
    \/ \E i \in 1..MaxCalls : Resumes(i)

ViewSpec == ViewInit /\ [][ViewNext]_vars

\* every fetch answers
ViewLive == ViewSpec /\ WF_vars(\E i \in 1..MaxCalls : Resumes(i))

-----------------------------------------------------------------------------
(* GameHub (home.js): playGame, initializeGame, exitGame *)

\* currentGame is the entry of this.games being played or NULL;
\* currentGameInstance is NULL or N(i), the i-th object ever constructed;
\* instances lists the objects constructed, each with its class and whether
\* it is still live (constructed and destroy() not yet run); initTimers is
\* the queue of setTimeout(..., 100) callbacks not yet run, each holding the
\* game it closed over.  All have the same delay, so they run in the order
\* they were set; the 100 ms elapse at any point between the user's events.

\* plays (timers set and objects constructed) followed in one behaviour
MaxPlays == 3

\* entries of this.games: SnakeGame has destroy(), Sudoku4x4 has none
HubGames ==
    <<[id |-> "snake", className |-> "SnakeGame"],
      [id |-> "sudoku", className |-> "Sudoku4x4"]>>

\* ids handed to playGame(): two of this.games and one that is not in it
GameIds == {"snake", "sudoku", "chess"}

\* typeof instance.destroy === 'function'
HasDestroy(className) == className = "SnakeGame"

\* this.games.find(g => g.id === gameId)
FindGame(gameId) ==
    IF \E i \in DOMAIN HubGames : HubGames[i].id = gameId
    THEN HubGames[CHOOSE i \in DOMAIN HubGames :
                     /\ HubGames[i].id = gameId
                     /\ \A j \in 1..(i - 1) : HubGames[j].id # gameId]
    ELSE UNDEF

\* new GameClass('current-game-container') returns or throws
ConstructOutcomes == {"constructed", "threw"}

\* new GameHub()
HubInit ==
    /\ LoaderIdle /\ NoConstruction /\ NoSearch /\ NoDebouncer
    /\ NoSearchFilter /\ NoListView
    /\ NoGameHub

\* initializeGame(game): the instance is created by a timer
InitializeGame(game) == initTimers' = Append(initTimers, game)

\* playGame(gameId)
PlayGame(gameId) ==
    /\ Len(initTimers) + Len(instances) < MaxPlays
    /\ LET game == FindGame(gameId)
       IN  IF game = UNDEF
           THEN UNCHANGED hubVars
           ELSE /\ currentGame' = game
                /\ InitializeGame(game)
                /\ UNCHANGED <<currentGameInstance, instances>>
    /\ UNCHANGED <<loaderVars, gameVars, searchVars, debounceVars,
                   filterVars, viewVars>>

\* the callback initializeGame() handed to setTimeout runs
InitTimerFires(outcome) ==
    /\ initTimers # <<>>
    /\ initTimers' = Tail(initTimers)
    /\ IF outcome = "constructed"
       THEN /\ instances' = Append(instances,
                   [className |-> Head(initTimers).className, live |-> TRUE])
            /\ currentGameInstance' = N(Len(instances) + 1)
       ELSE UNCHANGED <<instances, currentGameInstance>>
    /\ UNCHANGED currentGame
    /\ UNCHANGED <<loaderVars, gameVars, searchVars, debounceVars,
                   filterVars, viewVars>>

\* exitGame(), from the back button, the error panel or the Escape key
ExitGame ==
    /\ currentGame # NULL
    /\ instances' =
         IF /\ currentGameInstance # NULL
            /\ HasDestroy(instances[currentGameInstance.n].className)
         THEN [instances EXCEPT ![currentGameInstance.n].live = FALSE]
         ELSE instances
    /\ currentGameInstance' = NULL
    /\ currentGame' = NULL
    /\ UNCHANGED initTimers
    /\ UNCHANGED <<loaderVars, gameVars, searchVars, debounceVars,
                   filterVars, viewVars>>

HubNext ==
    \/ \E gameId \in GameIds : PlayGame(gameId)
    \/ \E outcome \in ConstructOutcomes : InitTimerFires(outcome)
    \/ ExitGame

HubSpec == HubInit /\ [][HubNext]_vars

-----------------------------------------------------------------------------
(* Properties *)

\* a value with the prototypes of its objects forgotten: what a comparison
\* of the data alone looks at
RECURSIVE Plain(_)
Plain(v) ==
    CASE v.t = "array" -> A([i \in DOMAIN v.a |-> Plain(v.a[i])])
      [] v.t = "object" -> Obj("Object", [k \in DOMAIN v.f |-> Plain(v.f[k])])
      [] OTHER -> v

\* the step just taken ran a call
Ran == ev # NULL

\* the step just taken evaluated getCachedData() in loadGames()
ReadRan == Ran /\ ev.read # NULL

\* the stored string is the JSON text of an array
HoldsArray(str) == str # NULL /\ IsJsonText(str) /\ str.json.t = "array"

\* the stored timestamp is the one written at instant T
WrittenAt(str, T) == str = S(NumberToString(T))

\* C1: two consecutive successful loadGames() calls on one manager, the
\* second made as soon as the first has returned and no other call beside
\* them, return the same list and issue at most one fetch together.
C1_Idempotent ==
    (Ran /\ ev.op = "load" /\ ev.kind = "returned" /\ ev.prev # NULL)
        => /\ ev.result = ev.prev.result
           /\ ev.fetches + ev.prev.fetches <= 1

\* C2: of the loadGames() calls awaiting a fetch at the same time, at most one
\* issued a fetch of its own.
C2_SingleFlight ==
    \A i, j \in DOMAIN pending :
        (i # j /\ pending[i].op = "load" /\ pending[j].op = "load")
            => ~(pending[i].ownFetch /\ pending[j].ownFetch)

\* C3: when refreshData() fails after a catalog had been loaded, the memo still
\* holds that catalog.
C3_FailedRefreshKeepsCatalog ==
    (Ran /\ ev.op = "refresh" /\ ev.kind = "threw" /\ ev.solo
         /\ ev.memoBefore.isLoaded /\ NonEmpty(ev.memoBefore.games))
        => /\ isLoaded
           /\ games = ev.memoBefore.games

\* C4: a read within the TTL of a successful write, with no write or clear in
\* between, returns a payload equal to the written one.
C4_RoundTrip ==
    (ReadRan /\ ev.op = "load" /\ ev.priorWrite # NULL
         /\ ev.read.at - ev.priorWrite.at <= cacheTTL)
        => /\ ev.kind = "returned"
           /\ ev.path = "cache"
           /\ Plain(ev.result) = Plain(ev.priorWrite.payload)

\* C5: a record stored at T and read at t is served exactly when
\* t - T <= cacheTTL; when t - T > cacheTTL the read returns absent and both
\* keys are removed.
C5_TtlBoundary ==
    \A T \in Times :
        (ReadRan /\ storageMode # "disabled" /\ HoldsArray(ev.read.data)
             /\ WrittenAt(ev.read.ts, T))
            => /\ (ev.read.at - T <= cacheTTL)
                    <=> (ev.path = "cache" /\ ev.kind = "returned"
                           /\ ev.result = ev.read.data.json)
               /\ (ev.read.at - T > cacheTTL)
                    => (ev.read.value = NULL /\ lsData = NULL /\ lsTs = NULL)

C5_Witness ==
    \E T \in Times :
        /\ ReadRan /\ HoldsArray(ev.read.data) /\ WrittenAt(ev.read.ts, T)
        /\ ev.read.at - T = cacheTTL
        /\ ev.path = "cache" /\ NonEmpty(ev.result)

\* the stored payload is there and JSON.parse cannot read it
Undeserializable(str) == str # NULL /\ JsonParseThrows(str)

\* the key is missing or holds the empty string
Blank(str) == str = NULL \/ str = S(<<>>)

\* C6 as stated: the cache read never throws and returns absent or a record;
\* whenever the stored payload (a non-empty string here) cannot be
\* deserialized the result is absent and both keys are cleared.
C6_UndeserializableAlwaysCleared ==
    ReadRan
        => /\ ev.kind # "threw"
           /\ ev.read.value = NULL \/ ev.read.value.t = "array"
           /\ (storageMode # "disabled" /\ Undeserializable(ev.read.data)
                 /\ ~Blank(ev.read.data))
                => (ev.read.value = NULL /\ lsData = NULL /\ lsTs = NULL)

\* C6 amended: the cache read never throws and returns absent or a record.
\* When both keys hold a non-empty string and the payload cannot be
\* deserialized, the result is absent and both keys are cleared; when the
\* payload cannot be deserialized and the payload is the empty string or the
\* timestamp key is missing or empty, the result is absent and both keys are
\* left as they are; when storage access throws the result is absent.
C6_ReadNeverThrows ==
    ReadRan
        => /\ ev.kind # "threw"
           /\ ev.read.value = NULL \/ ev.read.value.t = "array"
           /\ (storageMode # "disabled" /\ Undeserializable(ev.read.data)
                 /\ ~Blank(ev.read.data) /\ ~Blank(ev.read.ts))
                => (ev.read.value = NULL /\ lsData = NULL /\ lsTs = NULL)
           /\ (storageMode # "disabled" /\ Undeserializable(ev.read.data)
                 /\ (Blank(ev.read.data) \/ Blank(ev.read.ts)))
                => (ev.read.value = NULL /\ lsData = ev.read.data
                      /\ lsTs = ev.read.ts)
           /\ storageMode = "disabled" => ev.read.value = NULL

C6_Witness ==
    /\ ReadRan /\ storageMode # "disabled"
    /\ Undeserializable(ev.read.data) /\ ~Blank(ev.read.data)
    /\ ~Blank(ev.read.ts)
    /\ ev.read.value = NULL /\ lsData = NULL /\ lsTs = NULL
    /\ ev.kind = "fetching"

\* the catalog loadGames() builds from the document the fetch delivered
BuiltFrom(o) == MapNewGame(Get(o.doc, "games").a)

\* C7: when a setItem of setCachedData() throws during loadGames(), the call
\* still returns, without error, the catalog built from the fetched document,
\* and the memo holds that catalog and is marked loaded.
C7_WriteFailureNotFatal ==
    (Ran /\ ev.write # NULL /\ ev.write.failAt # 0)
        => /\ ev.kind = "returned"
           /\ ev.error = "none"
           /\ ev.result = BuiltFrom(ev.outcome)
           /\ games = ev.result
           /\ isLoaded

C7_Witness ==
    /\ Ran /\ ev.write # NULL /\ ev.write.failAt = 2
    /\ storageMode = "quota"
    /\ ev.kind = "returned" /\ NonEmpty(ev.result)
    /\ games = ev.result /\ isLoaded

\* C8: a loadGames() call that finds no memo and a fresh record in the store
\* returns the cached catalog, sets the memo to it and issues no fetch; a
\* call issues a fetch only when its cache read returned absent.
C8_CacheBeforeNetwork ==
    /\ \A T \in Times :
          (ReadRan /\ ev.op = "load" /\ storageMode # "disabled"
               /\ HoldsArray(ev.read.data) /\ WrittenAt(ev.read.ts, T)
               /\ ev.read.at - T <= cacheTTL)
              => /\ ev.kind = "returned"
                 /\ ev.path = "cache"
                 /\ ev.result = ev.read.data.json
                 /\ ev.fetches = 0
                 /\ games = ev.result
                 /\ isLoaded
    /\ (Ran /\ ev.kind = "fetching")
          => (ev.fetches = 1 /\ ev.read # NULL /\ ev.read.value = NULL)

C8_Witness ==
    /\ ReadRan /\ ev.op = "load" /\ HoldsArray(ev.read.data)
    /\ ev.kind = "returned" /\ ev.path = "cache" /\ ev.fetches = 0
    /\ NonEmpty(ev.result) /\ games = ev.result /\ isLoaded

\* a Game entity whose releaseDate is a date value or null
IsGameEntry(v) ==
    HasAccessors(v) /\ v.f.releaseDate.t \in {"date", "invalidDate", "null"}

\* C9: the store holds the fetched rows as they came, and a load served from
\* the store returns the catalog the network path returned for the same
\* document: the same entities, accessors available, releaseDate a date
\* value or null.
C9_CachePathEqualsNetworkPath ==
    /\ (Ran /\ ev.write # NULL /\ ev.write.failAt = 0)
          => lsData = JsonStringify(Get(ev.outcome.doc, "games"))
    /\ (ReadRan /\ ev.path = "cache" /\ ev.priorWrite # NULL)
          => /\ ev.result = ev.priorWrite.payload
             /\ \A i \in DOMAIN ev.result.a : IsGameEntry(ev.result.a[i])

\* the fetch threw, answered with a non-success status, or delivered
\* something that is not an object with an array of rows
SourceFailure(o) ==
    \/ o.k \in {"networkError", "httpError"}
    \/ o.k = "doc" /\ ~(o.doc.t = "object" /\ Get(o.doc, "games").t = "array")

\* C10: a loadGames() call whose fetch throws, answers with a non-success
\* status or delivers a document that is not an object with an array of rows
\* fails with the data error after exactly one fetch; the memo is then not
\* marked loaded and the call has written nothing to the store.
C10_FailedLoad ==
    (Ran /\ ev.outcome # NULL /\ SourceFailure(ev.outcome))
        => /\ ev.kind = "threw"
           /\ ev.error = "GameDataError"
           /\ ev.fetches = 1
           /\ ev.write = NULL
           /\ ~isLoaded

\* the rows of the delivered document are an array and one of them lacks id
\* or title
RowFailure(o) ==
    o.k = "doc" /\ ~InvalidFormat(o.doc) /\ MapThrows(Get(o.doc, "games").a)

\* the error class loadGames() throws when the data source fails
SourceFailureError == "GameDataError"

\* C11: when a row of the fetched document lacks id or title, loadGames()
\* fails with an error of another class than the one of a source failure,
\* returns no list, leaves the memo as it was and writes nothing to the store.
C11_RowFailureIsValidationError ==
    [][(ev' # NULL /\ ev'.outcome # NULL /\ RowFailure(ev'.outcome))
          => /\ ev'.kind = "threw"
             /\ ev'.error # SourceFailureError
             /\ ev'.result = NULL
             /\ ev'.write = NULL
             /\ games' = games /\ isLoaded' = isLoaded
             /\ lsData' = lsData /\ lsTs' = lsTs]_vars

\* the step just taken is the first of a refreshData() call: clearCache(), the
\* memo reset and loadGames() up to its fetch
RefreshBegan == Ran /\ ev.op = "refresh" /\ ev.read # NULL

\* the step just taken is the return of a refreshData() call
RefreshReturned == Ran /\ ev.op = "refresh" /\ ev.kind = "returned"

Constructed == entry # NULL

NonEmptyString(v) == v.t = "string" /\ Len(v.s) > 0

\* C13: new Game(row) succeeds exactly when the row has a non-empty id and a
\* non-empty title, whatever its other fields; the entry then carries the id
\* and title of the row; otherwise the error is thrown and there is no entry.
C13_ConstructionIff ==
    Constructed
        => /\ HasAccessors(entry)
                <=> (NonEmptyString(Get(gameData, "id"))
                       /\ NonEmptyString(Get(gameData, "title")))
           /\ HasAccessors(entry)
                => (entry.f.id = Get(gameData, "id")
                      /\ entry.f.title = Get(gameData, "title"))
           /\ ~HasAccessors(entry) => entry = Thrown

C13_Witness ==
    /\ Constructed /\ HasAccessors(entry)
    /\ Get(gameData, "rating") = A(<<>>)
    /\ Get(gameData, "genre").t = "string"
    /\ Get(gameData, "releaseDate") = S(<<"x">>)
    /\ entry.f.title = S(<<" ">>)

\* C14: every constructed Game has a rating from 0 to 5 and a reviewCount that
\* is a non-negative integer.
C14_RatingInRange ==
    (Constructed /\ HasAccessors(entry))
        => /\ entry.f.rating.t = "number"
           /\ 0 <= entry.f.rating.n /\ entry.f.rating.n <= 50
           /\ entry.f.reviewCount.t = "number"
           /\ entry.f.reviewCount.n >= 0
           /\ entry.f.reviewCount.n % 10 = 0

\* the step just taken was a searchGames(query) call
SearchRan == found # NULL /\ filters = NULL

\* the entries of a list
Entries(list) == {list.a[i] : i \in DOMAIN list.a}

\* the place of an entry in the catalog
Place(game) == CHOOSE i \in DOMAIN games.a : games.a[i] = game

\* the relevance score of an entry for q
Score(game, q) ==
    CalculateSearchScore(game, Trim(ToLowerCase(q.s)), Words(Trim(ToLowerCase(q.s))))

\* C15: for a query that is not blank, searchGames() returns exactly the
\* entries of the catalog with a score above 0, by non-increasing score and,
\* for the same score, in catalog order; for a blank query it returns the
\* catalog.
C15_TextSearch ==
    SearchRan
        => IF BlankQuery(query) THEN found = games
           ELSE /\ Entries(found) = {g \in Entries(games) : Score(g, query) > 0}
                /\ Len(found.a) = Cardinality(Entries(found))
                /\ \A i, j \in DOMAIN found.a :
                      i < j
                        => \/ Score(found.a[i], query) > Score(found.a[j], query)
                           \/ /\ Score(found.a[i], query) = Score(found.a[j], query)
                              /\ Place(found.a[i]) < Place(found.a[j])

C15_Witness ==
    /\ SearchRan /\ ~BlankQuery(query)
    /\ Len(found.a) < Len(games.a)
    /\ \E i, j \in DOMAIN found.a :
          /\ i < j
          /\ Score(found.a[i], query) = Score(found.a[j], query)

\* the title of the entry is the query, letter case and outer blanks aside
TitleEquals(game, q) == ToLowerCase(game.f.title.s) = Trim(ToLowerCase(q.s))

\* the title of the entry contains the query without being it
TitleContains(game, q) ==
    /\ Includes(ToLowerCase(game.f.title.s), Trim(ToLowerCase(q.s)))
    /\ ~TitleEquals(game, q)

\* the entry matches the query, and would not without its full description
OnlyFullDescription(game, q) ==
    /\ Score(game, q) > 0
    /\ Score([game EXCEPT !.f.fullDescription = S(<<>>)], q) = 0

\* C16: for every query and entries A, B, C of the catalog where the title of
\* A is the query, the title of B contains it without being it, and C matches
\* in its full description only, score(A) > score(B) > score(C).
C16_ScoringTiers ==
    (SearchRan /\ ~BlankQuery(query))
        => \A a, b, c \in Entries(games) :
              (TitleEquals(a, query) /\ TitleContains(b, query)
                 /\ OnlyFullDescription(c, query))
                => (Score(a, query) > Score(b, query)
                      /\ Score(b, query) > Score(c, query))

\* the step just taken was an advancedSearch(filters) call
AdvancedRan == found # NULL /\ filters # NULL

\* the filter is given
IsSet(name) == Get(filters, name) # UNDEF

\* C17: every entry advancedSearch() returns is of the catalog, has a genre
\* equal to the requested one letter case aside when a genre other than "all"
\* is given, a rating of at least minRating when given and of at most
\* maxRating when given; nothing is returned when minRating > maxRating.
C17_FiltersSound ==
    AdvancedRan
        => /\ \A g \in Entries(found) :
                 /\ g \in Entries(games)
                 /\ (IsSet("genre") /\ Get(filters, "genre") # All)
                      => \E i \in DOMAIN g.f.genre.a :
                            ToLowerCase(g.f.genre.a[i].s)
                              = ToLowerCase(Get(filters, "genre").s)
                 /\ IsSet("minRating") => g.f.rating.n >= Get(filters, "minRating").n
                 /\ IsSet("maxRating") => g.f.rating.n <= Get(filters, "maxRating").n
           /\ (IsSet("minRating") /\ IsSet("maxRating")
                 /\ Get(filters, "minRating").n > Get(filters, "maxRating").n)
                => found = A(<<>>)

C17_Witness ==
    /\ AdvancedRan
    /\ IsSet("genre") /\ Get(filters, "genre") # All
    /\ IsSet("minRating") /\ IsSet("maxRating")
    /\ Len(found.a) > 0 /\ Len(found.a) < Len(games.a)
    /\ \E g \in Entries(games) :
          /\ g \notin Entries(found)
          /\ \E i \in DOMAIN g.f.genre.a :
                ToLowerCase(g.f.genre.a[i].s) = ToLowerCase(Get(filters, "genre").s)

SortFields == {SortByRating, SortByTitle, SortByReleaseDate, SortByReviewCount}

\* a does not come after b in the order of the field; two release dates are
\* compared only when both entries have one
FieldLeq(a, b, sortBy) ==
    CASE sortBy = SortByRating -> a.f.rating.n <= b.f.rating.n
      [] sortBy = SortByReviewCount -> a.f.reviewCount.n <= b.f.reviewCount.n
      [] sortBy = SortByTitle -> LocaleCompare(a.f.title.s, b.f.title.s) <= 0
      [] sortBy = SortByReleaseDate ->
            (a.f.releaseDate # NULL /\ b.f.releaseDate # NULL)
                => a.f.releaseDate.day <= b.f.releaseDate.day

\* the place of an entry in a list without repetition
PlaceIn(list, game) == CHOOSE i \in DOMAIN list : list[i] = game

\* what the text search step gives advancedSearch
TextStep ==
    IF BlankQuery(Get(filters, "query")) THEN games.a
    ELSE SearchGames(games.a, Get(filters, "query"))

C19_AbsentDateEarliest ==
    (AdvancedRan /\ Get(filters, "sortBy") = SortByReleaseDate)
        => \A i, j \in DOMAIN found.a :
              (found.a[i].f.releaseDate = NULL /\ found.a[j].f.releaseDate # NULL)
                => /\ Get(filters, "sortOrder") = Asc => i < j
                   /\ Get(filters, "sortOrder") = Desc => i > j

\* C20: at most one timer is pending at any instant; while the timer of the
\* last execute(value) of a burst is pending the function has not been called
\* in this burst, and it is pending for that value and due one delay after
\* that call; once it is no longer pending the function has been called
\* exactly once, at that instant and with that value.
C20_Debounce ==
    /\ Cardinality(timers) <= 1
    /\ \A t \in timers : t.due >= now
    /\ lastCall # NULL
          => IF timers # {}
             THEN /\ invoked = <<>>
                  /\ timers = {[id |-> timeoutId,
                                due |-> lastCall.at + debounceDelay,
                                args |-> lastCall.value]}
             ELSE invoked = <<[at |-> lastCall.at + debounceDelay,
                               value |-> lastCall.value]>>

\* a burst of two execute() calls with different values has ended with one
\* call of the function
C20_Witness ==
    /\ lastCall # NULL /\ timers = {}
    /\ lastCall.since < lastCall.at /\ lastCall.at - lastCall.since < debounceDelay
    /\ lastCall.value = S(<<"g", "o">>)
    /\ invoked = <<[at |-> lastCall.at + debounceDelay, value |-> lastCall.value]>>
    /\ now > lastCall.at + debounceDelay

\* C21: cancel() aborts the pending call: once cancel() has run and until
\* execute() is called again no timer is pending and the function is not
\* called; cancel() with nothing pending changes nothing; the execute() that
\* follows a cancel() sets one timer, due one delay later, for its value.
C21_CancelAborts ==
    /\ [](lastCall = NULL => timers = {})
    /\ [][lastCall = NULL /\ lastCall' = NULL => invoked' = invoked]_vars
    /\ [][timers = {} /\ lastCall' = NULL /\ now' = now
             => UNCHANGED <<timeoutId, timers, invoked>>]_vars
    /\ [][lastCall = NULL /\ lastCall' # NULL
             => /\ invoked' = <<>>
                /\ timers' = {[id |-> timeoutId', due |-> now + debounceDelay,
                               args |-> lastCall'.value]}]_vars

\* cancel() was called while the timer of an execute() was pending, and the
\* clock has reached the end without a call of the function
C21_Witness ==
    /\ lastCall = NULL /\ timeoutId # NULL
    /\ invoked = <<>> /\ timers = {}
    /\ now = Horizon

\* the texts of an entry the search looks at, in lower case
TextsOf(game) ==
    {ToLowerCase(game.f.title.s), ToLowerCase(game.f.developer.s),
     ToLowerCase(game.f.description.s), ToLowerCase(game.f.fullDescription.s)}
      \cup {ToLowerCase(game.f.genre.a[i].s) : i \in DOMAIN game.f.genre.a}
      \cup {ToLowerCase(game.f.tags.a[i].s) : i \in DOMAIN game.f.tags.a}

\* the words of a query: what blanks delimit in its lower-cased text
WordsOf(q) == {Words(Trim(ToLowerCase(q.s)))[i] :
                  i \in DOMAIN Words(Trim(ToLowerCase(q.s)))}

\* a word of the query occurs in a text of the entry
SomeWordOccurs(game, q) ==
    \E word \in WordsOf(q) : \E text \in TextsOf(game) : Includes(text, word)

\* C22: for every entry and every query that is not blank the score is a
\* non-negative integer, and it is 0 exactly when no word of the lower-cased
\* query occurs in the lower-cased title, genres, tags, developer,
\* description or full description of the entry.
C22_ScoreZeroIffNoWord ==
    (SearchRan /\ ~BlankQuery(query))
        => \A g \in Entries(games) :
              /\ Score(g, query) \in Nat
              /\ Score(g, query) = 0 <=> ~SomeWordOccurs(g, query)

\* a query of two words was searched in a catalog with an entry that holds
\* one of the words and not the whole query, and is returned
C22_Witness ==
    /\ SearchRan /\ ~BlankQuery(query)
    /\ Cardinality(WordsOf(query)) = 2
    /\ \E g \in Entries(found) :
          /\ SomeWordOccurs(g, query)
          /\ \A text \in TextsOf(g) : ~Includes(text, Trim(ToLowerCase(query.s)))

\* the step just taken ran setCachedData()
WriteRan == ev # NULL /\ ev.write # NULL

\* C23: a cache write stores the payload and the time of the write together
\* or not at all: a setCachedData() that succeeds leaves the payload written
\* and the instant of the write in the two keys, and one that fails, at the
\* payload key or at the timestamp key, leaves both keys as they were.
C23_AtomicWrite ==
    [][WriteRan'
         => IF ev'.write.failAt = 0
            THEN /\ lsData' = JsonStringify(games')
                 /\ lsTs' = S(NumberToString(ev'.write.at))
            ELSE lsData' = lsData /\ lsTs' = lsTs]_vars

\* the timestamp key is missing or holds no number parseInt can read
NoTimestamp(str) == str = NULL \/ ParseIntStr(str.s) = NAN

\* C24: a stored record whose timestamp key holds no parseable number is not
\* served: getCachedData() returns null for it, whatever the payload key
\* holds, and loadGames() goes to the network.
C24_NoTimestampNotServed ==
    (ReadRan /\ NoTimestamp(ev.read.ts))
        => /\ ev.read.value = NULL
           /\ ev.path = "network"

\* the step just taken ended the fetch of a call of kind op with a catalog
\* stored in the memo, while n calls begun before it were still in flight
Settled(op, n) ==
    /\ Ran /\ ev.outcome # NULL /\ ev.kind = "returned"
    /\ ev.op = op /\ ev.older = n

\* C25: a loadGames() in flight when refreshData() was called does not
\* overwrite the refresh: when the fetch of the refresh has ended with a
\* catalog and the fetch of the older load ends after it, the memo and, with
\* a working localStorage, the stored payload stay those of the refresh; when
\* the older load ends first, the refresh that ends after it with a catalog
\* leaves its own catalog in both.
C25_RefreshWins ==
    /\ [][(/\ Settled("refresh", 1)
           /\ Len(pending) = 1 /\ pending[1].op = "load"
           /\ Len(pending') = 0 /\ Ran' /\ ev'.outcome # NULL)
             => /\ games' = ev.result
                /\ storageMode = "ok" => lsData' = JsonStringify(ev.result)]_vars
    /\ [][(/\ Ran /\ ev.outcome # NULL /\ ev.op = "load" /\ ev.older = 0
           /\ Len(pending) = 1 /\ pending[1].op = "refresh"
           /\ Len(pending') = 0 /\ Settled("refresh", 0)')
             => /\ games' = ev'.result
                /\ storageMode = "ok" => lsData' = JsonStringify(ev'.result)]_vars

\* C26: after clearSearch() or resetFilters(), as long as no input event
\* arrives, currentSearchQuery is empty and onFilterCallback is called with
\* an empty query only, also when a debounced search was pending at the
\* clear.
C26_ClearStaysClear ==
    sinceClear # NULL
        => /\ currentSearchQuery = S(<<>>)
           /\ sinceClear.of = {S(<<>>)}

\* the entries of the catalog that satisfy every condition the filters
\* object gives
Satisfying ==
    LET q == Get(filters, "query")
        searchTerm == Trim(ToLowerCase(q.s))
        searchWords == Words(searchTerm)
        Matches(g) == CalculateSearchScore(g, searchTerm, searchWords) > 0
        byText == IF BlankQuery(q) THEN Entries(games)
                  ELSE {g \in Entries(games) : Matches(g)}
        byGenre == IF Truthy(Get(filters, "genre")) /\ Get(filters, "genre") # All
                   THEN {g \in byText : HasGenre(g, Get(filters, "genre"))}
                   ELSE byText
    IN  {g \in byGenre :
            /\ IsSet("minRating") => g.f.rating.n >= Get(filters, "minRating").n
            /\ IsSet("maxRating") => g.f.rating.n <= Get(filters, "maxRating").n}

\* C27: advancedSearch() returns the entries of the catalog that satisfy all
\* the conditions given, each once, and nothing else; after a searchGames(),
\* advancedSearch(), sortGames() or getGameById() call the memo has the
\* content and the order it had before the call.
C27_CompleteAndFrame ==
    /\ AdvancedRan
         => /\ Entries(found) = Satisfying
            /\ Len(found.a) = Cardinality(Satisfying)
    /\ called # NULL => Memo = called.memo

\* advancedSearch() without query or filter has returned the whole catalog
\* sorted in another order than the memo's
C27_Witness ==
    /\ AdvancedRan
    /\ Len(found.a) = Len(games.a) /\ found # games
    /\ BlankQuery(Get(filters, "query")) /\ ~IsSet("genre")
    /\ ~IsSet("minRating") /\ ~IsSet("maxRating")

\* the view shows the cards of the current page and is not loading
ShowsCards ==
    /\ listView.isLoading = FALSE
    /\ listView.container = GameGrid(PageOf(listView.filteredGames.a,
                                            listView.currentPage))

\* C28: the list view leaves the loading state: once loadAndRenderGames() or
\* filterGames() has got a non-empty list from the data manager, the view
\* eventually has isLoading = false and shows the cards of the current page,
\* unless a later call began, failed or found nothing in the meantime.
C28_LeavesLoading == obtained ~> (ShowsCards \/ ~obtained)

\* C29: the view shows the latest filter request: when the filterGames()
\* call made last has returned and an older filterGames() call gets its
\* answer after it, filteredGames still holds the result for the filters of
\* the call made last.
C29_LatestFilterShown ==
    [][\A i \in DOMAIN requests :
          (/\ requests' = Remove(requests, i)
           /\ requests[i].op = "filter"
           /\ latest # NULL /\ latest.ended = "returned"
           /\ requests[i].id < latest.id)
            => listView'.filteredGames = A(AdvancedSearch(games'.a, latest.f))]_vars

\* C30: a game instance that was created and not yet destroyed is the one
\* currentGameInstance refers to, and a game is current while it exists
C30_OneLiveInstance ==
    \A i \in DOMAIN instances :
        instances[i].live => /\ currentGameInstance = N(i)
                             /\ currentGame # NULL

====
